---- MODULE Spec2Model ----
(***************************************************************************)
(* A model of cargo-leptos' watch / build / reload engine:                 *)
(*   - ext/path.rs   : starts_with, unbase, rebase, remove_nested          *)
(*   - run/watch.rs  : Watched, try_new, handle (event routing)            *)
(*   - run/assets.rs : the asset synchronizer (resync, update_asset)       *)
(*   - run/wasm.rs   : wasm::build and its spawned run_build task          *)
(*   - main.rs       : build, build_client, the watch loop, ctrl-c         *)
(* Each part has its own specification over its own group of variables;    *)
(* the variables of the other parts stay at their initial values.          *)
(***************************************************************************)
EXTENDS Integers, Sequences, FiniteSets, TLC

VARIABLES
    \* ---- root-set reduction (watch::spawn -> remove_nested)
    paths,          \* the list of watch roots handed to remove_nested
    reduced,        \* the list remove_nested returned
    rootsDone,      \* TRUE once remove_nested has returned
    watcher,        \* watch::run's watcher: "off", "watching", "partial", "panicked",
                    \* and in TasksSpec "notified", "returned"
    thread,         \* watch::run's classifier thread: "off", "running", "ended"
    \* ---- change classifier (watch::run's thread: try_new, handle)
    assets_dir,     \* Option<Utf8PathBuf>: the canonical assets root, if configured
    exclude,        \* the exclusion list handed to handle
    notification,   \* the last raw DebouncedEvent the thread received
    published,      \* the messages handle sent on MSG_BUS for that notification
    \* ---- reload loop (main.rs: watch, build, build_client; wasm.rs: build, run_build)
    SHUTDOWN,       \* the process-wide shutdown flag
    ctrlc,          \* the ctrl-c task: "idle", "flag_set" (flag written), "sent"
    release,        \* config.cli.release
    pc,             \* where the watch loop is
    sub,            \* the loop's wait_for receiver: "none", "listening", "ready"
    run,            \* the number of the current pipeline run
    task,           \* run number -> state of the run_build task that run spawned
    server,         \* TRUE while the server process started by cargo::run is alive
    changes,        \* SrcChanged / StyleChanged messages published so far
    exits,          \* times the server process ended by itself
    hist,           \* what happened in the current run (read by the properties only)
    \* ---- asset synchronizer (run/assets.rs) and the source asset tree
    disk,           \* absolute path -> "none", "dir", or a file's content
    syncPc,         \* the synchronizer: "off", "init", "running", "closed", "failed"
    rx,             \* the synchronizer's receiver: messages sent and not yet received
    edits,          \* changes made to the source asset tree so far
    reloads,        \* Reload messages update_asset has sent
    last,           \* the last message the synchronizer handled, and how
    \* ---- one-shot commands (main.rs: build, e2e_test; command/build.rs: run)
    cmd,            \* the command: "off", "build", "e2e", "command_build"
    cpc,            \* where the command is
    todo,           \* the stages still to run, the one in progress first
    started,        \* the stages that have started
    finished,       \* the stages that have completed
    listeners,      \* the bus receivers that exist
    heard,          \* the receivers that received ShutDown
    faults          \* the tasks that panicked or failed because a send failed

rootsVars == <<paths, reduced, rootsDone, watcher, thread>>
routeVars == <<assets_dir, exclude, notification, published>>
loopVars == <<SHUTDOWN, ctrlc, release, pc, sub, run, task, server, changes, exits, hist>>
assetVars == <<disk, syncPc, rx, edits, reloads, last>>
cmdVars == <<cmd, cpc, todo, started, finished, listeners, heard, faults>>
vars == <<rootsVars, routeVars, loopVars, assetVars, cmdVars>>

\* What the actions of one part leave alone.
notRootsVars == <<routeVars, loopVars, assetVars, cmdVars>>
notRouteVars == <<rootsVars, loopVars, assetVars, cmdVars>>
notLoopVars == <<rootsVars, routeVars, assetVars, cmdVars>>
notAssetVars == <<rootsVars, loopVars, cmdVars>>

(***************************************************************************)
(* Values shared by the parts, and the state of each part before it runs.  *)
(***************************************************************************)
None == <<>>
Some(x) == <<x>>

\* A raw notification and a Watched value share one record shape.
Ev(kind, p, to) == [kind |-> kind, p |-> p, to |-> to]
NoPath == <<>>

\* Nothing received yet.
NoEvent == Ev("none", NoPath, NoPath)

\* Nothing has happened yet in the current pipeline run.
NoHist == [changedInWasm |-> FALSE, cancelled |-> FALSE, reloaded |-> FALSE,
           served |-> FALSE, failed |-> FALSE, changedSince |-> FALSE,
           msgSince |-> FALSE, retry |-> FALSE, changedEarly |-> FALSE,
           cleaned |-> FALSE]

RootsIdle ==
    /\ paths = <<>>
    /\ reduced = <<>>
    /\ rootsDone = FALSE
    /\ watcher = "off"
    /\ thread = "off"

RouteIdle ==
    /\ assets_dir = None
    /\ exclude = <<>>
    /\ notification = NoEvent
    /\ published = <<>>

LoopIdle ==
    /\ SHUTDOWN = FALSE
    /\ ctrlc = "idle"
    /\ release = FALSE
    /\ pc = "off"
    /\ sub = "none"
    /\ run = 0
    /\ task = <<>>
    /\ server = FALSE
    /\ changes = 0
    /\ exits = 0
    /\ hist = NoHist

CmdIdle ==
    /\ cmd = "off"
    /\ cpc = "off"
    /\ todo = <<>>
    /\ started = {}
    /\ finished = {}
    /\ listeners = {}
    /\ heard = {}
    /\ faults = {}

\* Nothing handled yet.
NoLast == [msg |-> NoEvent, outcome |-> "none"]

AssetsIdle ==
    /\ disk = <<>>
    /\ syncPc = "off"
    /\ rx = <<>>
    /\ edits = 0
    /\ reloads = 0
    /\ last = NoLast

(***************************************************************************)
(* Paths.  A path is the sequence of its components, as camino/std         *)
(* `components()` yields them; an absolute path starts with the root       *)
(* component "/".                                                          *)
(***************************************************************************)
RootDir == "/"

\* Utf8Path::starts_with: component-wise prefix test.
starts_with(self, base) ==
    /\ Len(base) <= Len(self)
    /\ \A i \in 1..Len(base) : self[i] = base[i]

\* Utf8Path::join for a relative right-hand side.
join(base, rel) == base \o rel

(***************************************************************************)
(* ext/path.rs: remove_nested                                              *)
(***************************************************************************)
\* A plausible slip: the two tests of the loop body exchanged their effects,
\* so that a sub folder replaces the folder that already covers it.
RECURSIVE remove_nested_visit_swapped(_, _, _)
remove_nested_visit_swapped(vec, path, i) ==
    IF i > Len(vec) THEN Append(vec, path)
    ELSE IF starts_with(path, vec[i]) THEN [vec EXCEPT ![i] = path]
    ELSE IF starts_with(vec[i], path) THEN vec
    ELSE remove_nested_visit_swapped(vec, path, i + 1)

\* The body of the fold's closure: `for added in vec.iter_mut()` from index i.
RECURSIVE remove_nested_visit(_, _, _)
remove_nested_visit(vec, path, i) ==
    IF i > Len(vec) THEN Append(vec, path)                       \* vec.push(path)
    ELSE IF starts_with(vec[i], path) THEN [vec EXCEPT ![i] = path]  \* *added = path; return
    ELSE IF starts_with(path, vec[i]) THEN vec                   \* return vec
    ELSE remove_nested_visit(vec, path, i + 1)

\* paths.into_iter().fold(vec![], ...)
RECURSIVE remove_nested_fold(_, _)
remove_nested_fold(vec, rest) ==
    IF rest = <<>> THEN vec
    ELSE remove_nested_fold(remove_nested_visit(vec, Head(rest), 1), Tail(rest))

remove_nested(ps) == remove_nested_fold(<<>>, ps)

(***************************************************************************)
(* The reload loop.  main.rs: watch, build, build_client and the ctrl-c    *)
(* task; wasm.rs: build and the run_build task it spawns.                  *)
(***************************************************************************)
MaxChanges == 2        \* SrcChanged / StyleChanged messages the watcher publishes
MaxServerExits == 1    \* times the server process ends by itself

\* Every run but the first follows a change message or a server exit.
NumRuns == 1 + MaxChanges + MaxServerExits

\* watch() has spawned the watcher and the asset synchronizer and enters its
\* loop: build(config, false) starts with rm_dir_content("target/site/pkg").
LoopStart ==
    /\ SHUTDOWN = FALSE
    /\ ctrlc = "idle"
    /\ release \in BOOLEAN
    /\ pc = "clean"
    /\ sub = "none"
    /\ run = 1
    /\ task = [r \in 1..NumRuns |-> "none"]
    /\ server = FALSE
    /\ changes = 0
    /\ exits = 0
    /\ hist = NoHist

LoopInit ==
    /\ LoopStart
    /\ RootsIdle
    /\ RouteIdle
    /\ AssetsIdle
    /\ CmdIdle

\* sync::src_or_style_change, the condition of the loop's wait_for calls.
src_or_style_change(msg) == msg \in {"ShutDown", "SrcChanged", "StyleChanged"}

\* MSG_BUS.send(msg) as the loop's receiver sees it: a receiver created by
\* wait_for sees the messages sent after it was created.
Deliver(msg) ==
    sub' = IF sub = "listening" /\ src_or_style_change(msg) THEN "ready" ELSE sub

\* A mutant of the Err arm of watch's match: no wait_for before the next run.
BuildErr_NoWait ==
    /\ pc' = "check"
    /\ sub' = "none"
    /\ hist' = [hist EXCEPT !.failed = TRUE]

\* build(config, false) returned Err: the Err arm of watch's match logs and
\* calls wait_for(src_or_style_change), which subscribes.
BuildErr ==
    /\ pc' = "wait"
    /\ sub' = "listening"
    /\ hist' = [hist EXCEPT !.failed = TRUE]

\* build: fs::rm_dir_content("target/site/pkg"); copy_assets is false in watch.
Clean ==
    /\ pc = "clean"
    /\ \/ pc' = "sass" /\ hist' = [hist EXCEPT !.cleaned = TRUE] /\ UNCHANGED sub
       \/ BuildErr
    /\ UNCHANGED <<SHUTDOWN, ctrlc, release, run, task, server, changes, exits>>
    /\ UNCHANGED notLoopVars

\* build_client: wasm::build is entered when sass::run returned Ok: it spawns
\* run_build as a task and selects between its handle and wait_for.
Sass ==
    /\ pc = "sass"
    /\ \/ /\ pc' = "wasm"
          /\ task' = [task EXCEPT ![run] = "compile"]
          /\ sub' = "listening"
          /\ UNCHANGED hist
       \/ BuildErr /\ UNCHANGED task
    /\ UNCHANGED <<SHUTDOWN, ctrlc, release, run, server, changes, exits>>
    /\ UNCHANGED notLoopVars

Running(st) == st \in {"compile", "emit_wasm", "optimize", "write_js"}
\* The steps of run_build that write into target/site/pkg.
Writing(st) == st \in {"emit_wasm", "optimize", "write_js"}

\* What a task whose JoinHandle is still selected on leaves behind, and what a
\* task nobody waits for leaves behind.
Ended(r, result) == IF r = run /\ pc = "wasm" THEN result ELSE "gone"

\* One step of a run_build task: cargo::build and bindgen ("compile"),
\* emit_wasm_file, optimize (release only), fs::write of app.js.
RunBuildStep(r) ==
    /\ Running(task[r])
    /\ \/ task' = [task EXCEPT ![r] = Ended(r, "failed")]
       \/ task' = [task EXCEPT ![r] =
                     CASE task[r] = "compile"   -> "emit_wasm"
                       [] task[r] = "emit_wasm" -> IF release THEN "optimize" ELSE "write_js"
                       [] task[r] = "optimize"  -> "write_js"
                       [] task[r] = "write_js"  -> Ended(r, "done")]
    /\ UNCHANGED <<SHUTDOWN, ctrlc, release, pc, sub, run, server, changes, exits, hist>>
    /\ UNCHANGED notLoopVars

RunBuild == \E r \in 1..NumRuns : RunBuildStep(r)

\* wasm::build, first select arm: the handle completed.
WasmJoined ==
    /\ pc = "wasm"
    /\ task[run] \in {"done", "failed"}
    /\ task' = [task EXCEPT ![run] = "gone"]
    /\ IF task[run] = "done"
       THEN pc' = "server_build" /\ sub' = "none" /\ UNCHANGED hist
       ELSE BuildErr
    /\ UNCHANGED <<SHUTDOWN, ctrlc, release, run, server, changes, exits>>
    /\ UNCHANGED notLoopVars

\* wasm::build, second select arm: wait_for completed; the result is Ok(())
\* and the JoinHandle is dropped, which detaches the task.
WasmInterrupted ==
    /\ pc = "wasm"
    /\ sub = "ready"
    /\ pc' = "server_build"
    /\ sub' = "none"
    /\ task' = [task EXCEPT ![run] = IF Running(task[run]) THEN task[run] ELSE "gone"]
    /\ hist' = [hist EXCEPT !.cancelled = TRUE]
    /\ UNCHANGED <<SHUTDOWN, ctrlc, release, run, server, changes, exits>>
    /\ UNCHANGED notLoopVars

\* build: cargo::build(&config, false), the server compile.
ServerBuild ==
    /\ pc = "server_build"
    /\ \/ pc' = "reload" /\ UNCHANGED <<sub, hist>>
       \/ BuildErr
    /\ UNCHANGED <<SHUTDOWN, ctrlc, release, run, task, server, changes, exits>>
    /\ UNCHANGED notLoopVars

\* A plausible slip: the Ok arm starts the server without send_reload().
SendReload_Skipped ==
    /\ pc = "reload"
    /\ pc' = "spawn_server"
    /\ UNCHANGED <<SHUTDOWN, ctrlc, release, sub, run, task, server, changes, exits, hist>>
    /\ UNCHANGED notLoopVars

\* The Ok arm of watch's match: send_reload().
SendReload ==
    /\ pc = "reload"
    /\ pc' = "spawn_server"
    /\ hist' = [hist EXCEPT !.reloaded = TRUE]
    /\ UNCHANGED <<SHUTDOWN, ctrlc, release, sub, run, task, server, changes, exits>>
    /\ UNCHANGED notLoopVars

\* cargo::run(&config, true): spawn the server, then wait for it or for a
\* message; a failure is propagated by `?` and ends watch with an error.
SpawnServer ==
    /\ pc = "spawn_server"
    /\ \/ /\ pc' = "serving"
          /\ server' = TRUE
          /\ sub' = "listening"
          /\ hist' = [hist EXCEPT !.served = TRUE]
       \/ /\ pc' = "error"
          /\ UNCHANGED <<server, sub, hist>>
    /\ UNCHANGED <<SHUTDOWN, ctrlc, release, run, task, changes, exits>>
    /\ UNCHANGED notLoopVars

\* cargo::run: a message arrived; the server process is killed.
ServeInterrupted ==
    /\ pc = "serving"
    /\ sub = "ready"
    /\ pc' = "check"
    /\ sub' = "none"
    /\ server' = FALSE
    /\ UNCHANGED <<SHUTDOWN, ctrlc, release, run, task, changes, exits, hist>>
    /\ UNCHANGED notLoopVars

\* cargo::run: the server process ended by itself.
ServerExit ==
    /\ pc = "serving"
    /\ exits < MaxServerExits
    /\ exits' = exits + 1
    /\ server' = FALSE
    /\ sub' = "none"
    /\ pc' \in {"check", "error"}
    /\ UNCHANGED <<SHUTDOWN, ctrlc, release, run, task, changes, hist>>
    /\ UNCHANGED notLoopVars

\* The Err arm of watch's match: wait_for(src_or_style_change) returned.
WaitReturned ==
    /\ pc = "wait"
    /\ sub = "ready"
    /\ pc' = "check"
    /\ sub' = "none"
    /\ UNCHANGED <<SHUTDOWN, ctrlc, release, run, task, server, changes, exits, hist>>
    /\ UNCHANGED notLoopVars

\* A plausible slip: the loop takes the flag when it reads it, leaving it
\* false for the other readers.
CheckShutdown_Reset ==
    /\ pc = "check"
    /\ IF SHUTDOWN
       THEN pc' = "stopped" /\ SHUTDOWN' = FALSE /\ UNCHANGED <<run, hist>>
       ELSE /\ pc' = "clean"
            /\ run' = run + 1
            /\ hist' = [NoHist EXCEPT !.retry = hist.failed]
            /\ UNCHANGED SHUTDOWN
    /\ UNCHANGED <<ctrlc, release, sub, task, server, changes, exits>>
    /\ UNCHANGED notLoopVars

\* The end of the loop body: `if *SHUTDOWN.read().await { break }`.
CheckShutdown ==
    /\ pc = "check"
    /\ IF SHUTDOWN
       THEN pc' = "stopped" /\ UNCHANGED <<run, hist>>
       ELSE /\ pc' = "clean"
            /\ run' = run + 1
            /\ hist' = [NoHist EXCEPT !.retry = hist.failed]
    /\ UNCHANGED <<SHUTDOWN, ctrlc, release, sub, task, server, changes, exits>>
    /\ UNCHANGED notLoopVars

\* The watcher thread publishes SrcChanged or StyleChanged.
PublishChange ==
    \E msg \in {"SrcChanged", "StyleChanged"} :
        /\ changes < MaxChanges
        /\ changes' = changes + 1
        /\ Deliver(msg)
        /\ hist' = [hist EXCEPT
                      !.changedInWasm = @ \/ (pc = "wasm" /\ Running(task[run])),
                      !.changedEarly = @ \/ (pc = "clean"),
                      !.changedSince = @ \/ hist.failed,
                      !.msgSince = @ \/ hist.failed]
        /\ UNCHANGED <<SHUTDOWN, ctrlc, release, pc, run, task, server, exits>>
        /\ UNCHANGED notLoopVars

\* The ctrl-c task: `*SHUTDOWN.write().await = true`.
CtrlCFlag ==
    /\ ctrlc = "idle"
    /\ ctrlc' = "flag_set"
    /\ SHUTDOWN' = TRUE
    /\ UNCHANGED <<release, pc, sub, run, task, server, changes, exits, hist>>
    /\ UNCHANGED notLoopVars

\* The ctrl-c task: `MSG_BUS.send(Msg::ShutDown)`.
CtrlCSend ==
    /\ ctrlc = "flag_set"
    /\ ctrlc' = "sent"
    /\ Deliver("ShutDown")
    /\ hist' = [hist EXCEPT !.msgSince = @ \/ hist.failed]
    /\ UNCHANGED <<SHUTDOWN, release, pc, run, task, server, changes, exits>>
    /\ UNCHANGED notLoopVars

\* The steps the runtime takes by itself, once enabled.
LoopProgress ==
    \/ Clean \/ Sass \/ RunBuild \/ WasmJoined \/ WasmInterrupted \/ ServerBuild
    \/ SendReload \/ SpawnServer \/ ServeInterrupted \/ WaitReturned
    \/ CheckShutdown \/ CtrlCSend

LoopNext ==
    \/ Clean \/ Sass \/ RunBuild \/ WasmJoined \/ WasmInterrupted \/ ServerBuild
    \/ SendReload \/ SpawnServer \/ ServeInterrupted \/ ServerExit \/ WaitReturned
    \/ CheckShutdown \/ PublishChange \/ CtrlCFlag \/ CtrlCSend

LoopSpec == LoopInit /\ [][LoopNext]_vars

\* Tasks of the runtime are scheduled as long as they can run.
LoopFairSpec == LoopSpec /\ WF_vars(LoopProgress)

Terminated == pc \in {"stopped", "error"}

\* C1: if a SrcChanged or StyleChanged message is published while the
\* WebAssembly compile stage of a pipeline run is in flight, the reload loop
\* neither publishes Reload nor starts the server for that run.
C1_ChangeInWasmCancelsRun ==
    hist.changedInWasm => (~hist.reloaded /\ ~hist.served)

\* C2: after wasm::build returns, the run_build task of that run is no longer
\* running, and no two run_build tasks write target/site/pkg at the same time.
C2_NoStageOutlivesRun ==
    /\ \A r \in DOMAIN task : Running(task[r]) => (r = run /\ pc = "wasm")
    /\ Cardinality({r \in DOMAIN task : Writing(task[r])}) <= 1

\* C9 as stated: after a failed pipeline run the reload loop does not exit and
\* starts no new run until a SrcChanged or StyleChanged message is published
\* after the failure; when such a message is published it starts a new run.
C9_FailureWaitsForChange ==
    [][ /\ (hist.failed /\ pc # "stopped") => pc' # "stopped"
        /\ (hist.failed /\ run' # run) => hist.changedSince
        /\ (hist.failed /\ hist.changedSince /\ pc = "check" /\ pc' # pc)
              => (pc' = "clean" /\ run' = run + 1) ]_vars

\* C9, amended: after a failed pipeline run the reload loop leaves wait_for only
\* after a message published after the failure, exits only if the shutdown
\* flag is set, starts a new run only after a SrcChanged or StyleChanged
\* message published after the failure, and does start one when the shutdown
\* flag is not set.
C9_FailureWaitsForChangeOrShutdown ==
    [][ /\ (hist.failed /\ pc # "stopped" /\ pc' = "stopped") => SHUTDOWN
        /\ (hist.failed /\ pc = "wait" /\ pc' # "wait") => hist.msgSince
        /\ (hist.failed /\ run' # run) => (hist.changedSince /\ ~SHUTDOWN)
        /\ (hist.failed /\ pc = "check" /\ ~SHUTDOWN /\ pc' # pc)
              => (pc' = "clean" /\ run' = run + 1) ]_vars

\* C9's case: a run that was started by a change message after a failed run.
C9_Witness == hist.retry /\ pc = "clean" /\ ~SHUTDOWN

\* C10: once the shutdown flag is set and ShutDown is published, the loop
\* eventually stops with no server process left running.
C10_ShutdownStopsLoop ==
    (SHUTDOWN /\ ctrlc = "sent") ~> (Terminated /\ ~server)

\* C11: when spawning or running the server process fails after a successful
\* pipeline run, watch does not return an error: the loop goes on.
C11_ServerFailureKeepsLoop == pc # "error"

\* C22: the shutdown flag starts false, and once it is true it is true in
\* every later state.
C22_FlagWriteOnce == ~SHUTDOWN /\ [][SHUTDOWN => SHUTDOWN']_vars

\* C22's case: the loop read the flag after ctrl-c wrote it, and stopped.
C22_Witness == SHUTDOWN /\ pc = "stopped" /\ ctrlc = "sent"

\* C28: a pipeline run started with copy_assets = false, as every run of the
\* watch loop is, does not remove the contents of target/site/pkg.
C28_WatchRunsDoNotClean == ~hist.cleaned

C19_ChangeInWasmRestartsOnce ==
    [][(pc = "wasm" /\ hist.changedInWasm /\ pc' # "wasm")
          => (pc' = "clean" /\ run' = run + 1)]_vars

\* C20: when the change that supersedes a run was published before the
\* stages of that run started (while build was still clearing
\* target/site/pkg), the WebAssembly stage writes nothing into
\* target/site/pkg and the run does not end in a reload.
C20_EarlyChangeCancelsRun ==
    hist.changedEarly => (~Writing(task[run]) /\ ~hist.reloaded)

(***************************************************************************)
(* Strings.  A string is the sequence of its tokens, so that a whole path  *)
(* rendered as text and a bare extension are different values.             *)
(***************************************************************************)
Str(s) == <<s>>

\* How a file name is spelled: stem, ".", extension.
Spelling(name) ==
    CASE name = "main.rs"    -> <<"main", ".", "rs">>
      [] name = "app.rs"     -> <<"app", ".", "rs">>
      [] name = "main.scss"  -> <<"main", ".", "scss">>
      [] name = "MAIN.CSS"   -> <<"MAIN", ".", "CSS">>
      [] name = "readme.md"  -> <<"readme", ".", "md">>
      [] name = "logo.png"   -> <<"logo", ".", "png">>
      [] name = "brand.png"  -> <<"brand", ".", "png">>
      [] name = "index.html" -> <<"index", ".", "html">>
      [] name = "app.js"     -> <<"app", ".", "js">>
      [] OTHER               -> <<name>>

\* str::to_lowercase on one token.
LowerToken(t) ==
    CASE t = "MAIN" -> "main"
      [] t = "CSS"  -> "css"
      [] OTHER      -> t

to_lowercase(str) == [i \in 1..Len(str) |-> LowerToken(str[i])]

\* Utf8Path::as_str: the whole path as text.
RECURSIVE as_str(_)
as_str(p) ==
    IF p = <<>> THEN <<>>
    ELSE IF Len(p) = 1 THEN Spelling(p[1])
    ELSE IF p[1] = RootDir THEN <<RootDir>> \o as_str(Tail(p))
    ELSE Spelling(p[1]) \o <<"/">> \o as_str(Tail(p))

(***************************************************************************)
(* run/watch.rs: Watched, try_new, handle                                  *)
(***************************************************************************)
\* A path component that is not valid UTF-8 (Utf8PathBuf::from_path_buf fails).
NonUtf8 == "<non-utf8>"
IsUtf8(p) == \A i \in 1..Len(p) : p[i] # NonUtf8

Ok(v) == [ok |-> TRUE, val |-> v]
Err == [ok |-> FALSE, val |-> None]

\* A plausible slip: a permission change is taken for a write.
try_new_chmod_as_write(event) ==
    CASE event.kind \in {"NoticeRemove", "NoticeWrite"} -> Ok(None)
      [] event.kind \in {"Create", "Remove", "Write", "Chmod"} ->
            IF IsUtf8(event.p)
            THEN Ok(Some(Ev(IF event.kind = "Chmod" THEN "Write" ELSE event.kind,
                            event.p, NoPath)))
            ELSE Err
      [] event.kind = "Rename" ->
            IF IsUtf8(event.p) /\ IsUtf8(event.to)
            THEN Ok(Some(Ev("Rename", event.p, event.to))) ELSE Err
      [] event.kind = "Rescan" -> Ok(Some(Ev("Rescan", NoPath, NoPath)))
      [] event.kind = "Error" -> Ok(None)

\* Watched::try_new
try_new(event) ==
    CASE event.kind \in {"Chmod", "NoticeRemove", "NoticeWrite"} -> Ok(None)
      [] event.kind \in {"Create", "Remove", "Write"} ->
            IF IsUtf8(event.p) THEN Ok(Some(Ev(event.kind, event.p, NoPath))) ELSE Err
      [] event.kind = "Rename" ->
            IF IsUtf8(event.p) /\ IsUtf8(event.to)
            THEN Ok(Some(Ev("Rename", event.p, event.to))) ELSE Err
      [] event.kind = "Rescan" -> Ok(Some(Ev("Rescan", NoPath, NoPath)))
      [] event.kind = "Error" -> Ok(None)

\* Watched::path
path(w) == IF w.kind = "Rescan" THEN None ELSE Some(w.p)

\* Watched::path_ext
path_ext(w) == IF path(w) = None THEN None ELSE Some(as_str(path(w)[1]))

\* A plausible slip: a rename is tested on its target alone.
path_starts_with_target_only(w, base) ==
    CASE w.kind \in {"Write", "Create", "Remove"} -> starts_with(w.p, base)
      [] w.kind = "Rename" -> starts_with(w.to, base)
      [] w.kind = "Rescan" -> FALSE

\* Watched::path_starts_with
path_starts_with(w, base) ==
    CASE w.kind \in {"Write", "Create", "Remove"} -> starts_with(w.p, base)
      [] w.kind = "Rename" -> starts_with(w.p, base) \/ starts_with(w.to, base)
      [] w.kind = "Rescan" -> FALSE

\* Vec::contains / slice::contains
contains(vec, x) == \E i \in 1..Len(vec) : vec[i] = x

SrcChanged == [type |-> "SrcChanged", watched |-> None]
StyleChanged == [type |-> "StyleChanged", watched |-> None]
AssetsChanged(w) == [type |-> "AssetsChanged", watched |-> Some(w)]

\* handle: the messages it sends on MSG_BUS, in order.
handle(watched, excl, assets) ==
    IF path(watched) # None /\ contains(excl, path(watched)[1]) THEN <<>>
    ELSE IF assets # None /\ path_starts_with(watched, assets[1])
         THEN <<AssetsChanged(watched)>>
    ELSE LET ext == path_ext(watched)
         IN  IF ext = Some(Str("rs")) THEN <<SrcChanged>>
             ELSE IF ext # None
                     /\ to_lowercase(ext[1]) \in {Str("scss"), Str("sass"), Str("css")}
                  THEN <<StyleChanged>>
             ELSE <<>>

\* The body of the thread's `while let Ok(event) = sync_rx.recv()` loop.
classify(event, excl, assets) ==
    LET w == try_new(event)
    IN  IF w.ok /\ w.val # None THEN handle(w.val[1], excl, assets) ELSE <<>>

(***************************************************************************)
(* Specification RouteSpec: the classifier thread receives any raw         *)
(* notification of a bounded universe, in any order.                       *)
(***************************************************************************)
SrcRoot == <<RootDir, "src">>
StyleRoot == <<RootDir, "style">>
AssetsRoot == <<RootDir, "assets">>

EventPaths ==
    { join(SrcRoot, <<"main.rs">>), join(SrcRoot, <<"readme.md">>),
      join(StyleRoot, <<"main.scss">>), join(StyleRoot, <<"MAIN.CSS">>),
      AssetsRoot, join(AssetsRoot, <<"logo.png">>), join(AssetsRoot, <<"app.rs">>),
      <<RootDir, "assets2", "logo.png">>, join(SrcRoot, <<NonUtf8>>) }

RawEvents ==
    {Ev(k, p, NoPath) : k \in {"Chmod", "NoticeRemove", "NoticeWrite",
                                 "Create", "Remove", "Write", "Error"},
                        p \in EventPaths}
    \cup {Ev("Rename", p, q) : p \in EventPaths, q \in EventPaths}
    \cup {Ev("Rescan", NoPath, NoPath), Ev("Error", NoPath, NoPath)}

RouteInit ==
    /\ assets_dir \in {None, Some(AssetsRoot)}
    /\ exclude = <<>>                 \* watch::spawn: run(&paths, vec![], assets_dir)
    /\ notification = NoEvent
    /\ published = <<>>
    /\ RootsIdle
    /\ LoopIdle
    /\ AssetsIdle
    /\ CmdIdle

Classify ==
    \E event \in RawEvents :
        /\ notification' = event
        /\ published' = classify(event, exclude, assets_dir)
        /\ UNCHANGED <<assets_dir, exclude>>
        /\ UNCHANGED notRouteVars

RouteNext == Classify

RouteSpec == RouteInit /\ [][RouteNext]_vars

\* The ChangeEvent the last notification was classified as, if any.
Classified == try_new(notification).ok /\ try_new(notification).val # None
TheEvent == try_new(notification).val[1]

\* Utf8Path::extension of the file name, as text.
Extension(p) ==
    LET sp == Spelling(p[Len(p)])
    IN  IF Len(sp) = 3 THEN Some(Str(sp[3])) ELSE None

\* No path of the event is under the assets root.
OutsideAssets(w) ==
    \/ assets_dir = None
    \/ /\ ~starts_with(w.p, assets_dir[1])
       /\ w.kind = "Rename" => ~starts_with(w.to, assets_dir[1])

\* C7: a ChangeEvent whose path is not under the assets root is routed by the
\* extension of its path: rs publishes SrcChanged; scss, sass or css in any
\* letter case publishes StyleChanged; any other extension publishes nothing.
C7_RoutedByExtension ==
    (notification # NoEvent /\ Classified /\ TheEvent.kind # "Rescan"
        /\ OutsideAssets(TheEvent)) =>
        LET ext == Extension(TheEvent.p)
        IN  published =
              IF ext = Some(Str("rs")) THEN <<SrcChanged>>
              ELSE IF ext # None
                      /\ to_lowercase(ext[1]) \in {Str("scss"), Str("sass"), Str("css")}
                   THEN <<StyleChanged>>
              ELSE <<>>

\* C8: a ChangeEvent whose path falls under the configured assets root
\* publishes exactly one message, AssetsChanged carrying that event, and never
\* SrcChanged or StyleChanged; every ChangeEvent publishes at most one message.
C8_AssetsFirst ==
    /\ Len(published) <= 1
    /\ (notification # NoEvent /\ Classified /\ assets_dir # None
          /\ path(TheEvent) # None
          /\ starts_with(path(TheEvent)[1], assets_dir[1])) =>
            published = <<AssetsChanged(TheEvent)>>

\* C8's case: a source-code extension under the assets root, and a rename out
\* of the assets root.
C8_Witness ==
    /\ assets_dir = Some(AssetsRoot)
    /\ notification = Ev("Rename", join(AssetsRoot, <<"app.rs">>), join(SrcRoot, <<"main.rs">>))
    /\ published = <<AssetsChanged(notification)>>

\* C14: with an assets root configured, a Rescan notification is published
\* to the asset synchronizer as AssetsChanged(Rescan), which makes it resync.
C14_RescanReachesAssets ==
    (notification.kind = "Rescan" /\ assets_dir # None) =>
        published = <<AssetsChanged(Ev("Rescan", NoPath, NoPath))>>

\* C15: a notification that reports an error is classified as Rescan.
C15_ErrorIsRescan ==
    notification.kind = "Error" =>
        (Classified /\ TheEvent = Ev("Rescan", NoPath, NoPath))

\* C16: a Chmod notification produces no ChangeEvent and publishes nothing,
\* whatever was received before it.
C16_ChmodIgnored ==
    notification.kind = "Chmod" => (~Classified /\ published = <<>>)

\* C16's case: a permission change of a file under the assets root, whose
\* write would be published.
C16_Witness ==
    /\ assets_dir = Some(AssetsRoot)
    /\ notification = Ev("Chmod", join(AssetsRoot, <<"logo.png">>), NoPath)
    /\ classify(Ev("Write", notification.p, NoPath), exclude, assets_dir) # <<>>
    /\ published = <<>>

(***************************************************************************)
(* Specification ExcludeSpec: the classifier thread with the exclusion     *)
(* lists a caller of watch::run can supply.                                *)
(***************************************************************************)
ExcludeLists ==
    { <<SrcRoot>>, <<AssetsRoot>>,
      <<join(AssetsRoot, <<"logo.png">>), StyleRoot>> }

ExcludeInit ==
    /\ assets_dir \in {None, Some(AssetsRoot)}
    /\ exclude \in ExcludeLists
    /\ notification = NoEvent
    /\ published = <<>>
    /\ RootsIdle
    /\ LoopIdle
    /\ AssetsIdle
    /\ CmdIdle

ExcludeSpec == ExcludeInit /\ [][RouteNext]_vars

\* The path lies under the exclusion set: it is an excluded path or a
\* descendant of one.
UnderExclusion(p) == \E i \in 1..Len(exclude) : starts_with(p, exclude[i])

unbase(self, base) ==
    IF starts_with(self, base)
    THEN Ok(SubSeq(self, Len(base) + 1, Len(self)))
    ELSE Err

\* PathExt::rebase
rebase(self, src_root, dest_root) ==
    LET unbased == unbase(self, src_root)
    IN  IF unbased.ok THEN Ok(join(dest_root, unbased.val)) ELSE Err

(***************************************************************************)
(* The file system under the assets root and under target/site.            *)
(***************************************************************************)
\* const DEST: "target/site", canonical.
DestRoot == <<RootDir, "target", "site">>

TopNames == {"index.html", "pkg", "logo.png", "brand.png"}
\* The names under which the model tracks the inside of a directory.
NestNames == {"pkg", "brand.png"}
ChildNames == {"app.js"}

\* The paths below a root that the model tracks.
RelPaths == {<<t>> : t \in TopNames} \cup {<<t, c>> : t \in NestNames, c \in ChildNames}
DiskPaths == {join(r, rel) : r \in {AssetsRoot, DestRoot}, rel \in RelPaths}

Contents == {"f1", "f2"}

At(d, p) ==
    IF p \in DiskPaths THEN d[p]
    ELSE IF p \in {AssetsRoot, DestRoot} THEN "dir"
    ELSE "none"

is_dir(d, p) == At(d, p) = "dir"
IsFile(d, p) == At(d, p) \in Contents
Parent(p) == SubSeq(p, 1, Len(p) - 1)
Below(p) == {q \in DiskPaths : Len(q) > Len(p) /\ starts_with(q, p)}
file_name(p) == p[Len(p)]
\* read_dir: the entries directly inside a directory.
Entries(d, dir) == {q \in DiskPaths : Parent(q) = dir /\ d[q] # "none"}

IoOk(d) == [ok |-> TRUE, disk |-> d]
IoErr(d) == [ok |-> FALSE, disk |-> d]

\* fs::copy: a regular file onto a path that is not a directory.
copy(d, from, to) ==
    IF IsFile(d, from) /\ to \in DiskPaths /\ is_dir(d, Parent(to)) /\ ~is_dir(d, to)
    THEN IoOk([d EXCEPT ![to] = At(d, from)])
    ELSE IoErr(d)

\* fs::copy_dir_all: create the target directory and copy every entry into it.
copy_dir_all(d, from, to) ==
    IF /\ is_dir(d, from) /\ to \in DiskPaths /\ is_dir(d, Parent(to))
       /\ At(d, to) \in {"none", "dir"}
       /\ \A q \in Entries(d, from) : join(to, <<file_name(q)>>) \in DiskPaths
    THEN IoOk([q \in DiskPaths |->
                 IF q = to THEN "dir"
                 ELSE IF Parent(q) = to /\ At(d, join(from, <<file_name(q)>>)) # "none"
                      THEN At(d, join(from, <<file_name(q)>>))
                 ELSE d[q]])
    ELSE IoErr(d)

\* fs::remove_dir_all
remove_dir_all(d, p) ==
    IF is_dir(d, p) /\ p \in DiskPaths
    THEN IoOk([q \in DiskPaths |-> IF q = p \/ q \in Below(p) THEN "none" ELSE d[q]])
    ELSE IoErr(d)

\* fs::remove_file
remove_file(d, p) ==
    IF IsFile(d, p) THEN IoOk([d EXCEPT ![p] = "none"]) ELSE IoErr(d)

\* fs::rename, as rename(2): a file replaces a file, a directory replaces an
\* empty directory, and the entries of a directory move with it.
rename(d, from, to) ==
    IF At(d, from) = "none" \/ from \notin DiskPaths \/ to \notin DiskPaths
       \/ ~is_dir(d, Parent(to))
    THEN IoErr(d)
    ELSE IF from = to THEN IoOk(d)
    ELSE IF IsFile(d, from)
    THEN IF is_dir(d, to) THEN IoErr(d)
         ELSE IoOk([d EXCEPT ![to] = d[from], ![from] = "none"])
    ELSE IF IsFile(d, to) \/ Entries(d, to) # {} \/ starts_with(to, from)
            \/ \E q \in Entries(d, from) : join(to, <<file_name(q)>>) \notin DiskPaths
    THEN IoErr(d)
    ELSE IoOk([q \in DiskPaths |->
                 IF q = to THEN "dir"
                 ELSE IF Parent(q) = to THEN At(d, join(from, <<file_name(q)>>))
                 ELSE IF q = from \/ q \in Below(from) THEN "none"
                 ELSE d[q]])

(***************************************************************************)
(* run/assets.rs: reserved, clean_dest, mirror, resync, update_asset       *)
(***************************************************************************)
reserved(src) == <<join(src, <<"index.html">>), join(src, <<"pkg">>)>>

\* clean_dest: every entry of dest is removed, except a directory named pkg
\* and a file named index.html.
RECURSIVE clean_dest_entries(_, _)
clean_dest_entries(d, entries) ==
    IF entries = {} THEN IoOk(d)
    ELSE LET entry == CHOOSE e \in entries : TRUE
             step == IF is_dir(d, entry)
                     THEN IF file_name(entry) # "pkg" THEN remove_dir_all(d, entry) ELSE IoOk(d)
                     ELSE IF file_name(entry) # "index.html" THEN remove_file(d, entry)
                     ELSE IoOk(d)
         IN  IF step.ok THEN clean_dest_entries(step.disk, entries \ {entry}) ELSE step

\* A plausible slip: the loop over the entries returns after the first one.
clean_dest_one_entry(d, dest) ==
    IF Entries(d, dest) = {} THEN IoOk(d)
    ELSE clean_dest_entries(d, {CHOOSE e \in Entries(d, dest) : TRUE})

clean_dest(d, dest) == clean_dest_entries(d, Entries(d, dest))

\* mirror: every entry of src_root that is not reserved is copied to dest_root.
RECURSIVE mirror_entries(_, _, _, _, _)
mirror_entries(d, entries, src_root, dest_root, rsv) ==
    IF entries = {} THEN IoOk(d)
    ELSE LET from == CHOOSE e \in entries : TRUE
             to == rebase(from, src_root, dest_root)
             step == IF ~to.ok THEN IoErr(d)
                     ELSE IF contains(rsv, from) THEN IoOk(d)
                     ELSE IF is_dir(d, from) THEN copy_dir_all(d, from, to.val)
                     ELSE copy(d, from, to.val)
         IN  IF step.ok THEN mirror_entries(step.disk, entries \ {from}, src_root, dest_root, rsv)
             ELSE step

mirror(d, src_root, dest_root, rsv) ==
    mirror_entries(d, Entries(d, src_root), src_root, dest_root, rsv)

\* resync
resync(d, src, dest) ==
    LET cleaned == clean_dest(d, dest)
    IN  IF cleaned.ok THEN mirror(cleaned.disk, src, dest, reserved(src)) ELSE cleaned

\* The result of update_asset: whether it returned Ok, the disk it leaves, and
\* whether it sent Reload.
Updated(io, sent) == [ok |-> io.ok, disk |-> io.disk, reload |-> sent /\ io.ok]

\* A plausible slip: a rename is handled as a write of its target, and the
\* old name stays in the destination.
update_asset_rename_as_write(d, watched, src_root, dest_root, rsv) ==
    IF path(watched) # None /\ contains(rsv, path(watched)[1])
    THEN Updated(IoOk(d), FALSE)                        \* warn; return Ok(())
    ELSE CASE watched.kind = "Create" ->
                LET to == rebase(watched.p, src_root, dest_root)
                IN  IF ~to.ok THEN Updated(IoErr(d), FALSE)
                    ELSE IF is_dir(d, watched.p)
                         THEN Updated(copy_dir_all(d, watched.p, to.val), TRUE)
                         ELSE Updated(copy(d, watched.p, to.val), TRUE)
           [] watched.kind = "Remove" ->
                LET to == rebase(watched.p, src_root, dest_root)
                IN  IF ~to.ok THEN Updated(IoErr(d), FALSE)
                    ELSE IF is_dir(d, to.val)
                         THEN Updated(remove_dir_all(d, to.val), TRUE)
                         ELSE Updated(remove_file(d, to.val), TRUE)
           [] watched.kind = "Rename" ->
                LET from == rebase(watched.p, src_root, dest_root)
                    to == rebase(watched.to, src_root, dest_root)
                IN  IF ~from.ok \/ ~to.ok THEN Updated(IoErr(d), FALSE)
                    ELSE Updated(copy(d, watched.to, to.val), TRUE)
           [] watched.kind = "Write" ->
                LET to == rebase(watched.p, src_root, dest_root)
                IN  IF ~to.ok THEN Updated(IoErr(d), FALSE)
                    ELSE Updated(copy(d, watched.p, to.val), TRUE)
           [] watched.kind = "Rescan" -> Updated(resync(d, src_root, dest_root), TRUE)

\* update_asset
update_asset(d, watched, src_root, dest_root, rsv) ==
    IF path(watched) # None /\ contains(rsv, path(watched)[1])
    THEN Updated(IoOk(d), FALSE)                        \* warn; return Ok(())
    ELSE CASE watched.kind = "Create" ->
                LET to == rebase(watched.p, src_root, dest_root)
                IN  IF ~to.ok THEN Updated(IoErr(d), FALSE)
                    ELSE IF is_dir(d, watched.p)
                         THEN Updated(copy_dir_all(d, watched.p, to.val), TRUE)
                         ELSE Updated(copy(d, watched.p, to.val), TRUE)
           [] watched.kind = "Remove" ->
                LET to == rebase(watched.p, src_root, dest_root)
                IN  IF ~to.ok THEN Updated(IoErr(d), FALSE)
                    ELSE IF is_dir(d, to.val)
                         THEN Updated(remove_dir_all(d, to.val), TRUE)
                         ELSE Updated(remove_file(d, to.val), TRUE)
           [] watched.kind = "Rename" ->
                LET from == rebase(watched.p, src_root, dest_root)
                    to == rebase(watched.to, src_root, dest_root)
                IN  IF ~from.ok \/ ~to.ok THEN Updated(IoErr(d), FALSE)
                    ELSE Updated(rename(d, from.val, to.val), TRUE)
           [] watched.kind = "Write" ->
                LET to == rebase(watched.p, src_root, dest_root)
                IN  IF ~to.ok THEN Updated(IoErr(d), FALSE)
                    ELSE Updated(copy(d, watched.p, to.val), TRUE)
           [] watched.kind = "Rescan" -> Updated(resync(d, src_root, dest_root), TRUE)

(***************************************************************************)
(* Specification AssetSpec: the source asset tree is edited while the      *)
(* watcher routes the notifications and the synchronizer handles them.     *)
(***************************************************************************)
MaxEdits == 2         \* changes made to the source asset tree

\* A disk with the given entries under root, and nothing else under it.
Tree(root, entries) ==
    [q \in {join(root, rel) : rel \in RelPaths} |->
        IF \E e \in entries : join(root, e[1]) = q
        THEN (CHOOSE e \in entries : join(root, e[1]) = q)[2]
        ELSE "none"]

SourceTrees ==
    { Tree(AssetsRoot, {<<<<"logo.png">>, "f1">>}),
      Tree(AssetsRoot, {<<<<"index.html">>, "f2">>,
                        <<<<"pkg">>, "dir">>, <<<<"pkg", "app.js">>, "f2">>,
                        <<<<"brand.png">>, "dir">>, <<<<"brand.png", "app.js">>, "f1">>}) }

\* target/site as an earlier session left it: the bundle and the entry file,
\* with or without stale assets.
DestTrees ==
    { Tree(DestRoot, {<<<<"index.html">>, "f1">>, <<<<"pkg">>, "dir">>,
                      <<<<"pkg", "app.js">>, "f1">>}),
      Tree(DestRoot, {<<<<"index.html">>, "f1">>, <<<<"pkg">>, "dir">>,
                      <<<<"pkg", "app.js">>, "f1">>, <<<<"logo.png">>, "f2">>,
                      <<<<"brand.png">>, "f1">>}) }

AssetsInit ==
    /\ disk \in {s @@ t : s \in SourceTrees, t \in DestTrees}
    /\ syncPc = "init"
    /\ rx = <<>>
    /\ edits = 0
    /\ reloads = 0
    /\ last = NoLast
    /\ assets_dir = Some(AssetsRoot)
    /\ exclude = <<>>
    /\ notification = NoEvent
    /\ published = <<>>
    /\ RootsIdle
    /\ LoopIdle
    /\ CmdIdle

SourcePaths == {join(AssetsRoot, rel) : rel \in RelPaths}

ShutDown == [type |-> "ShutDown", watched |-> None]

\* The watcher's thread classifies the notification of an edit and sends what
\* handle sends; the synchronizer's receiver exists once assets::spawn has
\* subscribed.  The watcher is dropped when watch::run's wait for ShutDown
\* returns, so no notification follows a ShutDown.
Edited(newDisk, event) ==
    /\ edits < MaxEdits
    /\ syncPc \in {"init", "subscribed", "running"}
    /\ ~contains(rx, ShutDown)
    /\ edits' = edits + 1
    /\ disk' = newDisk
    /\ rx' = IF syncPc = "init" THEN rx ELSE rx \o classify(event, exclude, assets_dir)
    /\ UNCHANGED <<syncPc, reloads, last, routeVars>>
    /\ UNCHANGED notAssetVars

SrcCreateFile ==
    \E p \in SourcePaths :
        /\ At(disk, p) = "none"
        /\ is_dir(disk, Parent(p))
        /\ Edited([disk EXCEPT ![p] = "f1"], Ev("Create", p, NoPath))

SrcCreateDir ==
    \E p \in SourcePaths :
        /\ At(disk, p) = "none"
        /\ Parent(p) = AssetsRoot
        /\ Edited([disk EXCEPT ![p] = "dir"], Ev("Create", p, NoPath))

SrcWrite ==
    \E p \in SourcePaths :
        /\ IsFile(disk, p)
        /\ Edited([disk EXCEPT ![p] = IF @ = "f1" THEN "f2" ELSE "f1"], Ev("Write", p, NoPath))

\* unlink of a file, rmdir of an empty directory.
SrcRemove ==
    \E p \in SourcePaths :
        /\ At(disk, p) # "none"
        /\ Entries(disk, p) = {}
        /\ Edited([disk EXCEPT ![p] = "none"], Ev("Remove", p, NoPath))

SrcRename ==
    \E p \in SourcePaths, q \in SourcePaths :
        /\ p # q
        /\ edits < MaxEdits
        /\ LET moved == rename(disk, p, q)
           IN  moved.ok /\ Edited(moved.disk, Ev("Rename", p, q))

\* A watched path outside the assets root.
Outside == join(SrcRoot, <<"logo.png">>)

\* A file of the source asset tree is moved out of the assets root.
SrcMoveOut ==
    \E p \in SourcePaths :
        /\ IsFile(disk, p)
        /\ Parent(p) = AssetsRoot
        /\ Edited([disk EXCEPT ![p] = "none"], Ev("Rename", p, Outside))

\* A file is moved into the source asset tree from outside the assets root.
SrcMoveIn ==
    \E p \in SourcePaths :
        /\ At(disk, p) = "none"
        /\ Parent(p) = AssetsRoot
        /\ Edited([disk EXCEPT ![p] = "f2"], Ev("Rename", Outside, p))

\* assets::spawn: MSG_BUS.subscribe().
SyncSubscribe ==
    /\ syncPc = "init"
    /\ syncPc' = "subscribed"
    /\ UNCHANGED <<disk, rx, edits, reloads, last, routeVars>>
    /\ UNCHANGED notAssetVars

\* assets::spawn: resync, then start the receive loop.
SyncSpawn ==
    /\ syncPc = "subscribed"
    /\ LET r == resync(disk, AssetsRoot, DestRoot)
       IN  /\ disk' = r.disk
           /\ syncPc' = IF r.ok THEN "running" ELSE "failed"
    /\ UNCHANGED <<rx, edits, reloads, last, routeVars>>
    /\ UNCHANGED notAssetVars

\* A mutant of the receive loop's error arm: the error is logged and the
\* full resync is left out.
Fallback_Skipped(u) == IoOk(u.disk)

\* The receive loop's error arm: `resync(&src, &dest).await.unwrap()`.
Fallback(u) == resync(u.disk, AssetsRoot, DestRoot)

\* One iteration of the receive loop.
SyncRecv ==
    /\ syncPc = "running"
    /\ rx # <<>>
    /\ rx' = Tail(rx)
    /\ LET msg == Head(rx)
       IN  IF msg.type = "AssetsChanged"
           THEN LET u == update_asset(disk, msg.watched[1], AssetsRoot, DestRoot,
                                      reserved(AssetsRoot))
                    r == Fallback(u)
                IN  IF u.ok
                    THEN /\ disk' = u.disk
                         /\ reloads' = reloads + (IF u.reload THEN 1 ELSE 0)
                         /\ last' = [msg |-> msg.watched[1],
                                     outcome |-> IF u.reload THEN "updated" ELSE "skipped"]
                         /\ UNCHANGED syncPc
                    ELSE /\ disk' = r.disk
                         /\ syncPc' = IF r.ok THEN "running" ELSE "failed"   \* unwrap()
                         /\ last' = [msg |-> msg.watched[1], outcome |-> "resynced"]
                         /\ UNCHANGED reloads
           ELSE IF msg.type = "ShutDown"
           THEN syncPc' = "closed" /\ UNCHANGED <<disk, reloads, last>>
           ELSE UNCHANGED <<disk, syncPc, reloads, last>>
    /\ UNCHANGED <<edits, routeVars>>
    /\ UNCHANGED notAssetVars

\* ctrl-c: MSG_BUS.send(Msg::ShutDown) reaches the synchronizer's receiver.
AssetsShutDown ==
    /\ syncPc \in {"subscribed", "running"}
    /\ ~contains(rx, ShutDown)
    /\ rx' = Append(rx, ShutDown)
    /\ UNCHANGED <<disk, syncPc, edits, reloads, last, routeVars>>
    /\ UNCHANGED notAssetVars

AssetsNext ==
    \/ SrcCreateFile \/ SrcCreateDir \/ SrcWrite \/ SrcRemove \/ SrcRename
    \/ SrcMoveOut \/ SrcMoveIn
    \/ SyncSubscribe \/ SyncSpawn \/ SyncRecv \/ AssetsShutDown

AssetSpec == AssetsInit /\ [][AssetsNext]_vars

\* The destination entries that correspond to reserved paths: the entry file
\* index.html, the bundle directory pkg, and everything inside pkg.
DestIndex == join(DestRoot, <<"index.html">>)
DestPkg == join(DestRoot, <<"pkg">>)
ReservedEntry(d, p) ==
    \/ p = DestIndex /\ IsFile(d, p)
    \/ p = DestPkg /\ is_dir(d, p)
    \/ Parent(p) = DestPkg /\ is_dir(d, DestPkg) /\ At(d, p) # "none"

\* C3: in full resync and in every incremental update, the destination
\* entries that correspond to reserved paths are never removed, renamed over
\* or overwritten.
C3_ReservedUntouched ==
    [][\A p \in DiskPaths : ReservedEntry(disk, p) => disk'[p] = disk[p]]_vars

\* The paths below a root that are not reserved.
NonReserved == {rel \in RelPaths : rel[1] \notin {"index.html", "pkg"}}

\* C4: once every published AssetsChanged message has been processed, the
\* non-reserved content of the destination equals that of the source tree.
C4_DestMirrorsSource ==
    (syncPc = "running" /\ rx = <<>>) =>
        \A rel \in NonReserved :
            disk[join(DestRoot, rel)] = disk[join(AssetsRoot, rel)]

\* The synchronizer received an AssetsChanged message in this step.
Handled ==
    /\ syncPc = "running"
    /\ rx # <<>>
    /\ rx' = Tail(rx)
    /\ Head(rx).type = "AssetsChanged"

\* C12: every asset update that completes successfully, incremental or full
\* resync, the fallback resync after a failed incremental update included,
\* publishes a Reload message.
C12_UpdateSendsReload ==
    [][(Handled /\ syncPc' = "running" /\ last'.outcome \in {"updated", "resynced"})
          => reloads' = reloads + 1]_vars

\* What update_asset returns for the message at the head of the queue.
HeadUpdate ==
    update_asset(disk, Head(rx).watched[1], AssetsRoot, DestRoot, reserved(AssetsRoot))

\* C13: when an incremental update fails, the synchronizer runs a full resync
\* in the same iteration of its receive loop, before the next message, and
\* goes on receiving: the error reaches no caller.
C13_FailedUpdateResyncs ==
    [][(Handled /\ ~HeadUpdate.ok) =>
          LET r == resync(HeadUpdate.disk, AssetsRoot, DestRoot)
          IN  /\ disk' = r.disk
              /\ last'.outcome = "resynced"
              /\ r.ok => /\ syncPc' = "running"
                          /\ \A rel \in NonReserved :
                                disk'[join(DestRoot, rel)] = disk'[join(AssetsRoot, rel)]]_vars

\* C13's case: a Rename whose target cannot be rebased onto the source root
\* failed and was answered by a full resync.
C13_Witness ==
    /\ syncPc = "running"
    /\ last.outcome = "resynced"
    /\ last.msg.kind = "Rename"
    /\ last.msg.to = Outside

SrcLogo == join(AssetsRoot, <<"logo.png">>)
SrcBrand == join(AssetsRoot, <<"brand.png">>)
DestLogo == join(DestRoot, <<"logo.png">>)
DestBrand == join(DestRoot, <<"brand.png">>)
RenameLogo == Ev("Rename", SrcLogo, SrcBrand)

\* C18: logo.png is in the assets root and synchronized; renaming it to
\* brand.png while watched is published as AssetsChanged with the Rename
\* event, and handling that event leaves brand.png and no logo.png in the
\* destination and publishes exactly one Reload.
C18_RenameScenario ==
    [][ /\ (/\ syncPc = "running"
            /\ IsFile(disk, SrcLogo) /\ disk[SrcBrand] = "none"
            /\ disk'[SrcLogo] = "none" /\ disk'[SrcBrand] = disk[SrcLogo])
              => rx' = Append(rx, AssetsChanged(RenameLogo))
        /\ (/\ Handled
            /\ Head(rx).watched[1] = RenameLogo
            /\ IsFile(disk, DestLogo) /\ ~is_dir(disk, DestBrand))
              => /\ disk'[DestBrand] = disk[DestLogo]
                 /\ disk'[DestLogo] = "none"
                 /\ reloads' = reloads + 1
                 /\ syncPc' = "running" ]_vars

\* C18's case: the rename of the synchronized logo.png has been handled.
C18_Witness ==
    /\ syncPc = "running"
    /\ rx = <<>>
    /\ last = [msg |-> RenameLogo, outcome |-> "updated"]
    /\ reloads = 1
    /\ disk[SrcLogo] = "none" /\ IsFile(disk, SrcBrand)
    /\ disk[DestLogo] = "none" /\ disk[DestBrand] = disk[SrcBrand]

(***************************************************************************)
(* Specification ResyncSpec: resync run repeatedly, with no other change,  *)
(* on every well-formed source tree and a choice of destination trees.     *)
(***************************************************************************)
MaxResyncs == 2       \* consecutive runs of resync

\* The trees under root: an entry exists only inside a directory.
WellFormedTrees(root) ==
    {t \in [{join(root, rel) : rel \in RelPaths} -> {"none", "dir"} \cup Contents] :
        \A q \in DOMAIN t :
            Len(q) > Len(root) + 1 => (t[q] # "dir" /\ (t[q] # "none" => t[Parent(q)] = "dir"))}

ResyncDestTrees ==
    DestTrees \cup
    { Tree(DestRoot, {<<<<"logo.png">>, "f2">>, <<<<"brand.png">>, "dir">>,
                      <<<<"brand.png", "app.js">>, "f1">>}),
      Tree(DestRoot, {<<<<"index.html">>, "dir">>, <<<<"pkg">>, "f1">>}) }

ResyncInit ==
    /\ disk \in {s @@ t : s \in WellFormedTrees(AssetsRoot), t \in ResyncDestTrees}
    /\ syncPc = "resync"
    /\ rx = <<>>
    /\ edits = 0
    /\ reloads = 0
    /\ last = NoLast
    /\ assets_dir = Some(AssetsRoot)
    /\ exclude = <<>>
    /\ notification = NoEvent
    /\ published = <<>>
    /\ RootsIdle
    /\ LoopIdle
    /\ CmdIdle

\* One call of resync(&src, &dest), as assets::update and assets::spawn make.
Resync ==
    /\ syncPc = "resync"
    /\ edits < MaxResyncs
    /\ edits' = edits + 1
    /\ LET r == resync(disk, AssetsRoot, DestRoot)
       IN  /\ disk' = r.disk
           /\ last' = [msg |-> NoEvent, outcome |-> IF r.ok THEN "resynced" ELSE "failed"]
    /\ UNCHANGED <<syncPc, rx, reloads, routeVars>>
    /\ UNCHANGED notAssetVars

ResyncNext == Resync

ResyncSpec == ResyncInit /\ [][ResyncNext]_vars

\* C29: a run of resync that follows a run of resync, with no change in
\* between, leaves the destination tree as the first run left it.
C29_ResyncIdempotent ==
    [][(edits >= 1 /\ edits' = edits + 1 /\ last.outcome = "resynced") => disk' = disk]_vars

\* C29's case: the second run is done; the first one had removed stale
\* entries and copied a file and a directory.
C29_Witness ==
    /\ edits = 2
    /\ last.outcome = "resynced"
    /\ IsFile(disk, DestLogo) /\ disk[DestLogo] = disk[SrcLogo]
    /\ is_dir(disk, DestBrand) /\ IsFile(disk, join(DestBrand, <<"app.js">>))
    /\ IsFile(disk, DestIndex) /\ disk[join(AssetsRoot, <<"index.html">>)] = "dir"

(***************************************************************************)
(* Specification RootsSpec: remove_nested applied to every bounded list of *)
(* absolute watch roots.                                                   *)
(***************************************************************************)
MaxRootDepth == 2     \* components below "/" in a watch root
MaxRoots == 3         \* watch::spawn passes src, the style dir, the assets dir

RootNames == {"a", "b"}

RECURSIVE PathsUpTo(_)
PathsUpTo(d) ==
    IF d = 0 THEN {<<RootDir>>}
    ELSE LET shorter == PathsUpTo(d - 1)
         IN  shorter \cup {Append(p, n) : p \in {q \in shorter : Len(q) = d}, n \in RootNames}

WatchRoots == PathsUpTo(MaxRootDepth)

RootLists == UNION {[1..n -> WatchRoots] : n \in 1..MaxRoots}

RootsInit ==
    /\ paths \in RootLists
    /\ reduced = <<>>
    /\ rootsDone = FALSE
    /\ watcher = "off"
    /\ thread = "off"
    /\ RouteIdle
    /\ LoopIdle
    /\ AssetsIdle
    /\ CmdIdle

RemoveNested ==
    /\ ~rootsDone
    /\ paths # <<>>
    /\ reduced' = remove_nested(paths)
    /\ rootsDone' = TRUE
    /\ UNCHANGED <<paths, watcher, thread>>
    /\ UNCHANGED notRootsVars

\* watch::run, in the task watch::spawn spawned: notify::watcher(..).expect(..)
\* panics in that task when the watcher cannot be built; a root that cannot
\* be watched is logged and the loop over the roots goes on.
WatcherSetup ==
    /\ rootsDone
    /\ watcher = "off"
    /\ watcher' \in {"watching", "partial", "panicked"}
    /\ UNCHANGED <<paths, reduced, rootsDone, thread>>
    /\ UNCHANGED notRootsVars

RootsNext == RemoveNested \/ WatcherSetup

RootsSpec == RootsInit /\ [][RootsNext]_vars

Range(s) == {s[i] : i \in 1..Len(s)}

\* C5: the list returned by remove_nested contains no two paths where one is
\* an ancestor of, or equal to, the other.
C5_NoNestedRoots ==
    rootsDone =>
        \A i, j \in 1..Len(reduced) :
            i # j => ~starts_with(reduced[i], reduced[j])

\* C6: the list returned by remove_nested covers the same scope as the input:
\* every input root is equal to or a descendant of some returned root, and
\* every returned root is one of the input roots.
C6_SameScope ==
    rootsDone =>
        /\ \A i \in 1..Len(paths) :
              \E j \in 1..Len(reduced) : starts_with(paths[i], reduced[j])
        /\ Range(reduced) \subseteq Range(paths)

\* C6's case: a parent listed after its sub folder replaced it, and a sub
\* folder listed after its parent was dropped.
C6_Witness ==
    /\ rootsDone
    /\ paths = <<<<RootDir, "a", "b">>, <<RootDir, "a">>, <<RootDir, "a", "a">>>>
    /\ reduced = <<<<RootDir, "a">>>>

\* The orders in which a list of n paths can be given.
Orders(n) ==
    {f \in [1..n -> 1..n] : \A i, j \in 1..n : f[i] = f[j] => i = j}

Permuted(ps, f) == [i \in 1..Len(ps) |-> ps[f[i]]]

\* C30: remove_nested returns the same set of paths for every order of the
\* same list of watch roots.
C30_OrderIndependent ==
    rootsDone =>
        \A f \in Orders(Len(paths)) :
            Range(remove_nested(Permuted(paths, f))) = Range(reduced)

(***************************************************************************)
(* Specification WatchModeSpec: the reload loop together with the tasks    *)
(* watch() spawned before it: the watcher task and the asset synchronizer. *)
(* The synchronizer's work on target/site takes time; the files are not    *)
(* tracked here.                                                           *)
(***************************************************************************)
MaxAssetChanges == 1  \* AssetsChanged messages published while the loop runs

WatchModeInit ==
    /\ LoopStart
    /\ paths = <<SrcRoot, AssetsRoot>>
    /\ reduced = remove_nested(paths)
    /\ rootsDone = TRUE
    /\ watcher = "off"
    /\ thread = "off"
    /\ assets_dir = Some(AssetsRoot)
    /\ exclude = <<>>
    /\ notification = NoEvent
    /\ published = <<>>
    /\ disk = <<>>
    /\ syncPc = "running"
    /\ rx = <<>>
    /\ edits = 0
    /\ reloads = 0
    /\ last = NoLast
    /\ CmdIdle

\* The watcher's thread reports a write under the assets root; handle sends
\* AssetsChanged, which the synchronizer's receiver queues.
AssetPublish ==
    /\ watcher \in {"watching", "partial"}
    /\ ctrlc # "sent"
    /\ syncPc \in {"running", "updating"}
    /\ edits < MaxAssetChanges
    /\ edits' = edits + 1
    /\ rx' = rx \o classify(Ev("Write", SrcLogo, NoPath), exclude, assets_dir)
    /\ UNCHANGED <<disk, syncPc, reloads, last, routeVars>>
    /\ UNCHANGED notAssetVars

\* The receive loop took AssetsChanged and is inside update_asset (or the
\* fallback resync), between its awaits on the file system.
SyncBegin ==
    /\ syncPc = "running"
    /\ rx # <<>>
    /\ Head(rx).type = "AssetsChanged"
    /\ syncPc' = "updating"
    /\ UNCHANGED <<disk, rx, edits, reloads, last, routeVars>>
    /\ UNCHANGED notAssetVars

\* update_asset returned and the loop is back at rx.recv().
SyncEnd ==
    /\ syncPc = "updating"
    /\ syncPc' = "running"
    /\ last' = [msg |-> Head(rx).watched[1], outcome |-> "updated"]
    /\ rx' = Tail(rx)
    /\ reloads' = reloads + 1
    /\ UNCHANGED <<disk, edits, routeVars>>
    /\ UNCHANGED notAssetVars

WatchModeNext ==
    \/ Clean \/ Sass \/ RunBuild \/ WasmJoined \/ WasmInterrupted \/ ServerBuild
    \/ SendReload \/ SpawnServer \/ ServeInterrupted \/ ServerExit \/ WaitReturned
    \/ CheckShutdown \/ PublishChange \/ CtrlCFlag \/ CtrlCSend
    \/ WatcherSetup \/ AssetPublish \/ SyncBegin \/ SyncEnd

WatchModeSpec == WatchModeInit /\ [][WatchModeNext]_vars

\* C25: no pipeline stage writes target/site while the asset synchronizer
\* is removing or copying entries there.
C25_NoConcurrentStagingWrites ==
    ~(syncPc = "updating" /\ \E r \in DOMAIN task : Writing(task[r]))

\* C26: once setting up the watcher has failed (the watcher could not be
\* built, or a root could not be watched), the reload loop takes no further
\* step except ending.
C26_WatchSetupFailureAborts ==
    [][(watcher \in {"partial", "panicked"} /\ pc' # pc) => pc' \in {"error", "stopped"}]_vars

(***************************************************************************)
(* Specification CommandSpec: the one-shot commands.  `build` and the      *)
(* build that `e2e_test` starts with are main.rs build(config, true);      *)
(* command/build.rs has its own run().  The ctrl-c task of main() runs     *)
(* beside every command.  A stage is in progress from its start to its     *)
(* return; the files the stages write are not tracked here.                *)
(***************************************************************************)
CompileStages == {"style", "wasm", "server"}

\* main.rs build and build_client: rm_dir_content, assets::update when
\* copy_assets, sass::run, wasm::build, cargo::build, each awaited in turn.
MainBuildPlan(copy_assets) ==
    <<"clean">> \o (IF copy_assets THEN <<"assets">> ELSE <<>>) \o <<"style", "wasm", "server">>

\* command/build.rs run: rm_dir_content when the site root exists, then
\* compile::server, compile::front, compile::assets, compile::style, each
\* spawned and joined before the next.
CommandBuildPlan(exists) ==
    (IF exists THEN <<"clean">> ELSE <<>>) \o <<"server", "wasm", "assets", "style">>

Commands == {"build", "e2e", "command_build"}

CmdInit ==
    /\ cmd \in Commands
    /\ cpc = "stages"
    /\ todo \in (IF cmd = "command_build"
                 THEN {CommandBuildPlan(e) : e \in BOOLEAN}
                 ELSE {MainBuildPlan(TRUE)})
    /\ started = {}
    /\ finished = {}
    /\ listeners = {}
    /\ heard = {}
    /\ faults = {}
    /\ LoopIdle
    /\ RootsIdle
    /\ RouteIdle
    /\ AssetsIdle

cmdRest == <<release, pc, sub, run, task, server, changes, exits, hist>>
notCmdVars == <<rootsVars, routeVars, assetVars, cmdRest>>

\* The stages of the command's plan.
InPlan == started \cup {todo[i] : i \in DOMAIN todo}

\* MSG_BUS.send(ShutDown): every receiver that exists gets the message.
SendShutDown == heard' = heard \cup listeners

\* The command the process was started for returns.
AfterStages ==
    IF cmd = "e2e" THEN "spawn_run" ELSE "done"

\* A stage is called.  wasm::build (run/wasm.rs) subscribes through
\* wait_for while its task runs.
StageBegin ==
    /\ cpc = "stages"
    /\ todo # <<>>
    /\ Head(todo) \notin started
    /\ started' = started \cup {Head(todo)}
    /\ listeners' = IF Head(todo) = "wasm" /\ cmd # "command_build"
                    THEN listeners \cup {"wasm"}
                    ELSE listeners
    /\ UNCHANGED <<cmd, cpc, todo, finished, heard, faults, SHUTDOWN, ctrlc>>
    /\ UNCHANGED notCmdVars

\* The stage returns Ok (wasm::build also when it was interrupted).
StageEnd ==
    /\ cpc = "stages"
    /\ todo # <<>>
    /\ Head(todo) \in started
    /\ finished' = finished \cup {Head(todo)}
    /\ todo' = Tail(todo)
    /\ listeners' = listeners \ {"wasm"}
    /\ cpc' = IF Tail(todo) = <<>> THEN AfterStages ELSE "stages"
    /\ UNCHANGED <<cmd, started, heard, faults, SHUTDOWN, ctrlc>>
    /\ UNCHANGED notCmdVars

\* The stage returns Err and `?` ends the command.
StageFail ==
    /\ cpc = "stages"
    /\ todo # <<>>
    /\ Head(todo) \in started
    /\ cpc' = "error"
    /\ listeners' = listeners \ {"wasm"}
    /\ UNCHANGED <<cmd, todo, started, finished, heard, faults, SHUTDOWN, ctrlc>>
    /\ UNCHANGED notCmdVars

\* e2e_test: cargo::spawn_run starts the server in a task that listens on
\* the bus.
E2eSpawnRun ==
    /\ cpc = "spawn_run"
    /\ cpc' = "tests"
    /\ listeners' = listeners \cup {"server"}
    /\ UNCHANGED <<cmd, todo, started, finished, heard, faults, SHUTDOWN, ctrlc>>
    /\ UNCHANGED notCmdVars

\* The server process exits by itself while the tests run; its task ends
\* and drops its receiver.
E2eServerExits ==
    /\ cpc = "tests"
    /\ "server" \in listeners
    /\ listeners' = listeners \ {"server"}
    /\ UNCHANGED <<cmd, cpc, todo, started, finished, heard, faults, SHUTDOWN, ctrlc>>
    /\ UNCHANGED notCmdVars

\* e2e_test: end2end::run(config).await.dot()?
E2eTests ==
    /\ cpc = "tests"
    /\ cpc' \in {"send", "error"}
    /\ UNCHANGED <<cmd, todo, started, finished, listeners, heard, faults, SHUTDOWN, ctrlc>>
    /\ UNCHANGED notCmdVars

\* e2e_test: MSG_BUS.send(Msg::ShutDown).dot()?  The flag is not written.
\* A send with no receiver is an error, which `?` returns.
E2eSend ==
    /\ cpc = "send"
    /\ IF listeners = {}
       THEN /\ cpc' = "error"
            /\ faults' = faults \cup {"e2e_test"}
            /\ UNCHANGED heard
       ELSE /\ cpc' = "join"
            /\ SendShutDown
            /\ UNCHANGED faults
    /\ UNCHANGED <<cmd, todo, started, finished, listeners, SHUTDOWN, ctrlc>>
    /\ UNCHANGED notCmdVars

\* e2e_test: handle.await.dot()? after the server task stopped.
E2eJoin ==
    /\ cpc = "join"
    /\ cpc' = "done"
    /\ listeners' = listeners \ {"server"}
    /\ UNCHANGED <<cmd, todo, started, finished, heard, faults, SHUTDOWN, ctrlc>>
    /\ UNCHANGED notCmdVars

\* The ctrl-c task: *SHUTDOWN.write().await = true
CmdCtrlCFlag ==
    /\ cpc \notin {"done", "error"}
    /\ ctrlc = "idle"
    /\ ctrlc' = "flag_set"
    /\ SHUTDOWN' = TRUE
    /\ UNCHANGED cmdVars
    /\ UNCHANGED notCmdVars

\* The ctrl-c task: MSG_BUS.send(Msg::ShutDown).unwrap()  A send with no
\* receiver is an error, on which unwrap panics.
CmdCtrlCSend ==
    /\ cpc \notin {"done", "error"}
    /\ ctrlc = "flag_set"
    /\ ctrlc' = "sent"
    /\ IF listeners = {}
       THEN /\ faults' = faults \cup {"ctrl_c"}
            /\ UNCHANGED heard
       ELSE /\ SendShutDown
            /\ UNCHANGED faults
    /\ UNCHANGED <<cmd, cpc, todo, started, finished, listeners, SHUTDOWN>>
    /\ UNCHANGED notCmdVars

CmdNext ==
    \/ StageBegin
    \/ StageEnd
    \/ StageFail
    \/ E2eSpawnRun
    \/ E2eServerExits
    \/ E2eTests
    \/ E2eSend
    \/ E2eJoin
    \/ CmdCtrlCFlag
    \/ CmdCtrlCSend

CommandSpec == CmdInit /\ [][CmdNext]_vars

\* C24: in every pipeline run, the clean stage and the assets stage (those
\* of them the run has) have completed before the style compile, the
\* WebAssembly compile or the server compile starts.
C24_CleanAndAssetsFirst ==
    \A s \in started \cap CompileStages :
        \A e \in {"clean", "assets"} \cap InPlan : e \in finished

\* C21: whenever a subscriber has received ShutDown, the shutdown flag is
\* true.
C21_ShutDownImpliesFlag == heard # {} => SHUTDOWN

\* C23: publishing with no subscriber is a no-op: no task panics and no
\* command returns an error because the message had no receiver.
C23_SendWithoutReceiverIsNoOp == faults = {}

(***************************************************************************)
(* Specification TasksSpec: the background tasks of watch mode beside the  *)
(* ctrl-c task of main(): the task and the thread of watch::run, and the   *)
(* receive loop of assets::spawn.  The results of the file operations are  *)
(* inputs here; the files are not tracked.  The reload loop is LoopSpec.   *)
(***************************************************************************)
MaxTaskEvents == 3  \* AssetsChanged messages the classifier thread publishes
BusCapacity == 2    \* messages the bus keeps for a receiver that is behind

\* What a receiver finds in place of the messages it was too slow for.
Lagged == [type |-> "Lagged", watched |-> None]

\* The messages a receiver still holds.
Held(q) == IF q # <<>> /\ Head(q) = Lagged THEN Tail(q) ELSE q

\* MSG_BUS.send as one receiver sees it: the message is queued; when the
\* receiver already holds BusCapacity messages the oldest is dropped and the
\* next recv returns an error.
Queue(q, msg) ==
    IF Len(Held(q)) < BusCapacity
    THEN Append(q, msg)
    ELSE <<Lagged>> \o Tail(Held(q)) \o <<msg>>

\* watch() is called: watch::spawn and assets::spawn have not run yet, the
\* ctrl-c task exists.
TasksInit ==
    /\ paths = <<SrcRoot, AssetsRoot>>
    /\ reduced = remove_nested(paths)
    /\ rootsDone = TRUE
    /\ watcher = "off"
    /\ thread = "off"
    /\ assets_dir = Some(AssetsRoot)
    /\ exclude = <<>>
    /\ notification = NoEvent
    /\ published = <<>>
    /\ disk = <<>>
    /\ syncPc = "init"
    /\ rx = <<>>
    /\ edits = 0
    /\ reloads = 0
    /\ last = NoLast
    /\ LoopIdle
    /\ CmdIdle

notTasksVars == <<paths, reduced, rootsDone, disk, routeVars, cmdRest, cmdVars>>

\* The synchronizer holds a receiver from MSG_BUS.subscribe() on.
Subscribed == syncPc = "running"

\* watch::run: the classifier thread is spawned, the watcher is built and
\* the roots are watched; the task then waits in oneshot_when for ShutDown,
\* with a receiver created there.  When the watcher cannot be built the task
\* panics.
WatchRun ==
    /\ watcher = "off"
    /\ thread' = "running"
    /\ watcher' \in {"watching", "partial", "panicked"}
    /\ UNCHANGED <<syncPc, rx, edits, reloads, last, SHUTDOWN, ctrlc>>
    /\ UNCHANGED notTasksVars

\* watch::run: oneshot_when returned; run returns and drops the watcher, and
\* with it the sender of the thread's channel.
WatchReturn ==
    /\ watcher = "notified"
    /\ watcher' = "returned"
    /\ UNCHANGED <<thread, syncPc, rx, edits, reloads, last, SHUTDOWN, ctrlc>>
    /\ UNCHANGED notTasksVars

\* The classifier thread: sync_rx.recv() returns Err once the sender is
\* gone, and the thread ends.
ThreadEnd ==
    /\ thread = "running"
    /\ watcher \in {"panicked", "returned"}
    /\ thread' = "ended"
    /\ UNCHANGED <<watcher, syncPc, rx, edits, reloads, last, SHUTDOWN, ctrlc>>
    /\ UNCHANGED notTasksVars

\* The classifier thread: a write under the assets root is reported and
\* handle sends AssetsChanged.
ThreadPublish ==
    /\ thread = "running"
    /\ watcher \in {"watching", "partial", "notified"}
    /\ edits < MaxTaskEvents
    /\ edits' = edits + 1
    /\ rx' = IF Subscribed
             THEN Queue(rx, classify(Ev("Write", SrcLogo, NoPath), exclude, assets_dir)[1])
             ELSE rx
    /\ UNCHANGED <<watcher, thread, syncPc, reloads, last, SHUTDOWN, ctrlc>>
    /\ UNCHANGED notTasksVars

\* assets::spawn: subscribe, the first resync, and the task is spawned.  (An
\* Err of the first resync ends watch() before the task exists.)
AssetsSpawn ==
    /\ syncPc = "init"
    /\ syncPc' = "running"
    /\ UNCHANGED <<watcher, thread, rx, edits, reloads, last, SHUTDOWN, ctrlc>>
    /\ UNCHANGED notTasksVars

\* One iteration of the receive loop of assets::spawn.  update_asset and
\* the fallback resync each return Ok or Err.
TaskRecv ==
    /\ syncPc = "running"
    /\ rx # <<>>
    /\ rx' = Tail(rx)
    /\ LET msg == Head(rx)
       IN  CASE msg.type = "AssetsChanged" ->
                  \E updated \in BOOLEAN, resynced \in BOOLEAN :
                     IF updated
                     THEN /\ last' = [msg |-> msg.watched[1], outcome |-> "updated"]
                          /\ reloads' = reloads + 1
                          /\ UNCHANGED syncPc
                     ELSE /\ last' = [msg |-> msg.watched[1], outcome |-> "resynced"]
                          /\ syncPc' = IF resynced THEN "running" ELSE "panicked"   \* unwrap()
                          /\ UNCHANGED reloads
             [] msg.type = "ShutDown" ->                     \* Ok(Msg::ShutDown) => break
                  syncPc' = "closed" /\ UNCHANGED <<reloads, last>>
             [] msg.type = "Lagged" ->                       \* Err(e) => break
                  syncPc' = "closed" /\ UNCHANGED <<reloads, last>>
             [] OTHER -> UNCHANGED <<syncPc, reloads, last>>
    /\ UNCHANGED <<watcher, thread, edits, SHUTDOWN, ctrlc>>
    /\ UNCHANGED notTasksVars

\* The ctrl-c task: *SHUTDOWN.write().await = true
TasksCtrlCFlag ==
    /\ ctrlc = "idle"
    /\ ctrlc' = "flag_set"
    /\ SHUTDOWN' = TRUE
    /\ UNCHANGED <<watcher, thread, syncPc, rx, edits, reloads, last>>
    /\ UNCHANGED notTasksVars

\* The ctrl-c task: MSG_BUS.send(Msg::ShutDown), which reaches the receivers
\* that exist.
TasksCtrlCSend ==
    /\ ctrlc = "flag_set"
    /\ ctrlc' = "sent"
    /\ watcher' = IF watcher \in {"watching", "partial"} THEN "notified" ELSE watcher
    /\ rx' = IF Subscribed THEN Queue(rx, ShutDown) ELSE rx
    /\ UNCHANGED <<thread, syncPc, edits, reloads, last, SHUTDOWN>>
    /\ UNCHANGED notTasksVars

\* The steps the runtime takes by itself, once enabled.
TasksProgress ==
    \/ WatchRun \/ WatchReturn \/ ThreadEnd \/ AssetsSpawn \/ TaskRecv \/ TasksCtrlCSend

TasksNext ==
    \/ WatchRun \/ WatchReturn \/ ThreadEnd \/ ThreadPublish
    \/ AssetsSpawn \/ TaskRecv \/ TasksCtrlCFlag \/ TasksCtrlCSend

TasksSpec == TasksInit /\ [][TasksNext]_vars

\* Tasks and threads are scheduled as long as they can run.
TasksFairSpec == TasksSpec /\ WF_vars(TasksProgress)

\* C31: the synchronizer task leaves its receive loop only by receiving
\* ShutDown: neither a failing fallback resync nor a receive error of a
\* receiver that fell behind stops it.
C31_EndsOnlyOnShutDown ==
    [][(syncPc = "running" /\ syncPc' # "running") => (rx # <<>> /\ Head(rx) = ShutDown)]_vars

\* The background tasks have ended.
TasksEnded ==
    /\ watcher \in {"returned", "panicked"}
    /\ thread = "ended"
    /\ syncPc \in {"closed", "panicked"}

\* C32: once ShutDown is published, the synchronizer task, the watcher task
\* and the classifier thread eventually end, and none of them publishes a
\* message after it has ended.
C32_TasksEndAfterShutDown ==
    /\ (ctrlc = "sent") ~> TasksEnded
    /\ [][/\ thread = "ended" => edits' = edits
          /\ syncPc \in {"closed", "panicked"} => reloads' = reloads]_vars

====
